---- MODULE Spec2Model ----
(***************************************************************************)
(* The Light accessory adapter of homebridge-xiaomi-yeelight, in its four  *)
(* revisions:                                                              *)
(*   "pull"   src/unnamed/part_000        getters and setters, no events   *)
(*   "event"  src/unnamed/part_001        device events, no getters        *)
(*   "moon"   src/unnamed/part_002        events, moonlight, colour flow   *)
(*   "night"  src/src/platformAccessory.ts events, night-mode switch       *)
(* One accessory, one connection.  Every asynchronous device-client call   *)
(* is split at its await: the step that issues the call, and the step in   *)
(* which the call settles (resolves or rejects) and the rest of the        *)
(* handler runs.  Between the two any other handler may run.               *)
(***************************************************************************)
EXTENDS Integers, Sequences, FiniteSets, Bags, TLC

VARIABLES
  variant,     \* which revision of the Light class this accessory runs
  caps,        \* capabilities the device reports through connection.matches
  connection,  \* "pending" | "open" | "failed": this.connection is set only when "open"
  state,       \* this.state: the shadow hue and saturation
  attached,    \* characteristics that exist on the accessory's services
  bound,       \* characteristics with an onSet (or onGet) handler registered
  listeners,   \* device events with a listener registered by connection.on
  value,       \* value[c]: the platform's cached value of characteristic c
  calls,       \* the bag of handler invocations awaiting the device
  timers,      \* number of setTimeout callbacks not yet run
  accepted,    \* the last colour command the device accepted (<<>>: none yet)
  lastSet,     \* argument of the most recent setHue / setSaturation invocation
  ev           \* what the last step did: commands issued, updateValue calls, log, result

vars == <<variant, caps, connection, state, attached, bound, listeners, value,
          calls, timers, accepted, lastSet, ev>>

-----------------------------------------------------------------------------
(* Bounds of the model *)

MaxInFlight == 2
MaxTimers == 1

(* Program constants *)

minTemp == 154
maxTemp == 370
PullMinTemp == 140
PullMaxTemp == 500
NightBrightness == 1
NightSceneArg == 10
MiredScale == 1000000
FullLightness == 100

(* rgb(255,152,0) in HSV, hue rounded to the degree: 60*152/255 = 35.76 *)
NightHue == 36
NightSat == 100

Variants == {"pull", "event", "moon", "night"}
Caps == {"temperature", "full", "brightness", "nightmode"}
Chars == {"power", "colorTmp", "brightness", "hue", "sat",
          "moonlight", "moonlightBrightness", "nightModeSwitchOn"}

(* Values the platform and the device may supply *)
HueVals == {0, NightHue}
SatVals == {0, NightSat}
BrightVals == {NightBrightness, 50}
MiredInputs == {minTemp, maxTemp}
DevMired == {100, 250, 600}
ColorModels == {"temperature", "mired", "rgb"}
FlowingVals == {"0", "1"}


-----------------------------------------------------------------------------
(* Pure helpers *)

\* mutant: the quotient is truncated instead of rounded
KelvinTruncated(mired) == MiredScale \div mired

\* Math.round(1000000 / value) for a positive integer value: round half up
Kelvin(mired) == (2 * MiredScale + mired) \div (2 * mired)

\* `${N}K`
KelvinString(mired) == <<Kelvin(mired), "K">>

\* `hsl(${h}, ${s}%, 100%)`
HslString(h, s) == <<"hsl", h, s, FullLightness>>

Min(a, b) == IF a < b THEN a ELSE b
Max(a, b) == IF a > b THEN a ELSE b

\* Math.min(Math.max(t, lo), hi)
Clamp(t, lo, hi) == Min(Max(t, lo), hi)

Cmd(m, a) == [method |-> m, args |-> a]

\* the packed RGB colours of the flow animation
FlowColors ==
  << 255 * 65536 + 36 * 256 + 0,
     232 * 65536 + 29 * 256 + 29,
     232 * 65536 + 183 * 256 + 29,
     227 * 65536 + 232 * 256 + 29,
     29 * 65536 + 232 * 256 + 64,
     29 * 65536 + 221 * 256 + 232,
     43 * 65536 + 29 * 256 + 232,
     221 * 65536 + 0 * 256 + 243 >>

FlowTuples == [i \in 1..Len(FlowColors) |-> <<2250, 1, FlowColors[i], 100>>]

StopFlowCmd == Cmd("call", <<"stop_cf">>)
StartFlowCmd == Cmd("call", <<"set_scene", "cf", 0, 0, FlowTuples>>)
NightSceneCmd == Cmd("call", <<"set_scene", "nightlight", NightSceneArg>>)
LoadFlowingCmd == Cmd("loadProperties", <<"flowing">>)

\* whether the revision restores the shadow value when the colour call fails
Rollback == variant # "pull"

HueField == IF variant = "pull" THEN "Hue" ELSE "hue"
SatField == IF variant = "pull" THEN "Saturation" ELSE "saturation"

\* the step record of a step that does nothing observable
Quiet(op) == [op |-> op, fn |-> "none", arg |-> <<>>, res |-> "none", out |-> <<>>, upd |-> {},
              logged |-> FALSE, raised |-> "none", ret |-> <<>>]

\* the invocations in flight
InFlight == BagToSet(calls)
\* the model admits another invocation awaiting the device
HasFree == BagCardinality(calls) < MaxInFlight

-----------------------------------------------------------------------------
(* Construction *)

InitialValue ==
  [c \in Chars |->
     CASE c \in {"power", "moonlight", "nightModeSwitchOn"} -> FALSE
       [] c = "colorTmp" -> IF variant = "pull" THEN PullMinTemp ELSE minTemp
       [] OTHER -> 0]

Init ==
  /\ variant \in Variants
  /\ caps \in SUBSET Caps
  /\ connection = "pending"
  /\ state = [h \in {HueField, SatField} |-> 0]
  /\ attached = {"power"} \cup (IF variant = "night" THEN {"nightModeSwitchOn"} ELSE {})
  /\ bound = attached
  /\ listeners = {}
  /\ value = InitialValue
  /\ calls = EmptyBag
  /\ timers = 0
  /\ accepted = <<>>
  /\ lastSet = [hue |-> 0, saturation |-> 0]
  /\ ev = Quiet("init")

\* the characteristics the connection callback attaches and binds
CapChars ==
  (IF "temperature" \in caps THEN {"colorTmp"} ELSE {})
  \cup (IF "full" \in caps THEN {"hue", "sat"} ELSE {})
  \cup (IF "brightness" \in caps THEN {"brightness"} ELSE {})
  \cup (IF variant = "moon" /\ "nightmode" \in caps
        THEN {"moonlight", "moonlightBrightness"} ELSE {})

\* the device events the connection callback subscribes to
CapListeners ==
  IF variant = "pull" THEN {}
  ELSE {"powerChanged"}
       \cup (IF "temperature" \in caps THEN {"colorChanged:temperature"} ELSE {})
       \cup (IF "full" \in caps THEN {"colorChanged:full"} ELSE {})
       \cup (IF "brightness" \in caps THEN {"brightnessChanged"} ELSE {})
       \cup (IF variant = "moon" /\ "nightmode" \in caps
             THEN {"modeChanged", "updateMoonlightBrightness"} ELSE {})

\* miio.device(...).then(device => ...)
Connect ==
  /\ connection = "pending"
  /\ connection' = "open"
  /\ attached' = attached \cup CapChars
  /\ bound' = bound \cup CapChars
  /\ listeners' = CapListeners
  /\ ev' = Quiet("connect")
  /\ UNCHANGED <<variant, caps, state, value, calls, timers, accepted, lastSet>>

\* mutant: the capability setters are bound although the connection failed
ConnectFailBinding ==
  /\ connection = "pending"
  /\ connection' = "failed"
  /\ attached' = attached \cup CapChars
  /\ bound' = bound \cup CapChars
  /\ ev' = [Quiet("connectFail") EXCEPT !.logged = TRUE]
  /\ UNCHANGED <<variant, caps, state, listeners, value, calls, timers, accepted, lastSet>>

\* miio.device(...).catch(e => log.error(e))
ConnectFail ==
  /\ connection = "pending"
  /\ connection' = "failed"
  /\ ev' = [Quiet("connectFail") EXCEPT !.logged = TRUE]
  /\ UNCHANGED <<variant, caps, state, attached, bound, listeners, value, calls,
                 timers, accepted, lastSet>>

-----------------------------------------------------------------------------
(* Handler invocations *)

\* an invocation of handler op with argument arg that has issued cmds and awaits the device
Call(op, arg, old, by, stage, cmds) ==
  [op |-> op, arg |-> arg, old |-> old, by |-> by, stage |-> stage, cmds |-> cmds]

\* the step in which an invocation issues a device call and suspends at its await
Started(c) ==
  [op |-> "start", fn |-> c.op, arg |-> <<c.arg>>, res |-> "none",
   out |-> <<c.cmds[Len(c.cmds)]>>,
   upd |-> {}, logged |-> FALSE, raised |-> "none", ret |-> <<>>]

\* the step in which an invocation ends
Finished(c, res, upd, logged, raised, ret) ==
  [op |-> "done", fn |-> c.op, arg |-> <<>>, res |-> res, out |-> <<>>, upd |-> upd,
   logged |-> logged, raised |-> raised, ret |-> ret]

\* the platform stores the written value once the onSet handler has resolved
Commit(val, c, v) == [val EXCEPT ![c] = v]

Suspend(c) == calls' = calls (+) SetToBag({c})
Release(c) == calls' = calls (-) SetToBag({c})

\* if (this.nightModeSwitchOn.value) this.nightModeSwitchOn.updateValue(false)
SwitchReset == variant = "night" /\ value["nightModeSwitchOn"]

\* mutant: a successful set leaves the night-mode switch as it is
SwitchResetNever(val) == val

SwitchResetVal(val) ==
  IF SwitchReset THEN [val EXCEPT !["nightModeSwitchOn"] = FALSE] ELSE val
SwitchResetUpd == IF SwitchReset THEN {<<"nightModeSwitchOn", FALSE>>} ELSE {}

-----------------------------------------------------------------------------
(* setOn *)

\* setOn up to `await this.connection.setPower(value)`; with no connection the
\* call throws a TypeError inside the try block, which is caught and logged
SetOnStart(v) ==
  /\ "power" \in bound
  /\ LET c == Call("setOn", v, 0, "platform", "await", <<Cmd("setPower", <<v>>)>>) IN
     IF connection = "open"
     THEN /\ HasFree
          /\ Suspend(c)
          /\ ev' = Started(c)
          /\ value' = value
     ELSE /\ calls' = calls
          /\ ev' = Finished([c EXCEPT !.cmds = <<>>], "fail", {}, TRUE, "none", <<>>)
          /\ value' = Commit(value, "power", v)
  /\ UNCHANGED <<variant, caps, connection, state, attached, bound, listeners,
                 timers, accepted, lastSet>>

\* setOn after the await: setPower resolved (ok) or rejected
SetOnDone(c, ok) ==
  /\ c \in InFlight
  /\ c.op = "setOn"
  /\ LET reset == ok /\ ~c.arg /\ SwitchReset
     IN
     /\ Release(c)
     /\ value' = Commit(IF reset THEN SwitchResetVal(value) ELSE value, "power", c.arg)
     /\ ev' = Finished(c, IF ok THEN "ok" ELSE "fail",
                       IF reset THEN SwitchResetUpd ELSE {}, ~ok, "none", <<>>)
  /\ UNCHANGED <<variant, caps, connection, state, attached, bound, listeners,
                 timers, accepted, lastSet>>

-----------------------------------------------------------------------------
(* setBrightness, and setMoonLightBrightness which delegates to it *)

BrightnessCall(v, by) ==
  Call("setBrightness", v, 0, by, "await", <<Cmd("setBrightness", <<v>>)>>)

\* setBrightness up to `await this.connection.setBrightness(value)`
SetBrightnessStart(v) ==
  /\ "brightness" \in bound
  /\ HasFree
  /\ Suspend(BrightnessCall(v, "platform"))
  /\ ev' = Started(BrightnessCall(v, "platform"))
  /\ UNCHANGED <<variant, caps, connection, state, attached, bound, listeners,
                 value, timers, accepted, lastSet>>

\* setMoonLightBrightness: calls this.setBrightness(value) without awaiting it,
\* so the handler resolves at once while the brightness call is in flight
SetMoonLightBrightness(v) ==
  /\ "moonlightBrightness" \in bound
  /\ HasFree
  /\ Suspend(BrightnessCall(v, "setMoonLightBrightness"))
  /\ ev' = Started(BrightnessCall(v, "setMoonLightBrightness"))
  /\ value' = Commit(value, "moonlightBrightness", v)
  /\ UNCHANGED <<variant, caps, connection, state, attached, bound, listeners,
                 timers, accepted, lastSet>>

\* setBrightness after the await
SetBrightnessDone(c, ok) ==
  /\ c \in InFlight
  /\ c.op = "setBrightness"
  /\ LET v1 == IF ok THEN SwitchResetVal(value) ELSE value
     IN
     /\ Release(c)
     /\ value' = IF c.by = "platform" THEN Commit(v1, "brightness", c.arg) ELSE v1
     /\ ev' = Finished(c, IF ok THEN "ok" ELSE "fail",
                       IF ok THEN SwitchResetUpd ELSE {}, ~ok, "none", <<>>)
  /\ UNCHANGED <<variant, caps, connection, state, attached, bound, listeners,
                 timers, accepted, lastSet>>

-----------------------------------------------------------------------------
(* setColorTemperature *)

\* the command setColorTemperature sends for a mired value
TemperatureCmd(mired) == Cmd("color", <<KelvinString(mired)>>)

\* setColorTemperature up to `await this.connection.color(kelvin)`
SetColorTemperatureStart(mired) ==
  /\ "colorTmp" \in bound
  /\ HasFree
  /\ LET c == Call("setColorTemperature", mired, 0, "platform", "await",
                   <<TemperatureCmd(mired)>>) IN
     /\ Suspend(c)
     /\ ev' = Started(c)
  /\ UNCHANGED <<variant, caps, connection, state, attached, bound, listeners,
                 value, timers, accepted, lastSet>>

\* setColorTemperature after the await
SetColorTemperatureDone(c, ok) ==
  /\ c \in InFlight
  /\ c.op = "setColorTemperature"
  /\ Release(c)
  /\ value' = Commit(IF ok THEN SwitchResetVal(value) ELSE value, "colorTmp", c.arg)
  /\ accepted' = IF ok THEN c.cmds[1].args[1] ELSE accepted
  /\ ev' = Finished(c, IF ok THEN "ok" ELSE "fail",
                    IF ok THEN SwitchResetUpd ELSE {}, ~ok, "none", <<>>)
  /\ UNCHANGED <<variant, caps, connection, state, attached, bound, listeners,
                 timers, lastSet>>

-----------------------------------------------------------------------------
(* setHue and setSaturation *)

\* mutant: the command is composed before the argument is stored
ColorCmdStale(st) == Cmd("color", <<HslString(state[HueField], state[SatField])>>)

\* the colour command composed from the shadow state st
ColorCmd(st) == Cmd("color", <<HslString(st[HueField], st[SatField])>>)

\* the shadow state once setHue has stored its argument
HueStored(v) == [state EXCEPT ![HueField] = v]

\* the shadow state once setSaturation has stored its argument
SatStored(v) == [state EXCEPT ![SatField] = v]

\* the shadow state after the catch block of setHue
HueAfterFailure(c) ==
  IF Rollback THEN [state EXCEPT ![HueField] = c.old] ELSE state

\* the shadow state after the catch block of setSaturation
SatAfterFailure(c) ==
  IF Rollback THEN [state EXCEPT ![SatField] = c.old] ELSE state

\* setHue up to `await this.connection.color(...)`
SetHueStart(v) ==
  /\ "hue" \in bound
  /\ HasFree
  /\ LET c == Call("setHue", v, state[HueField], "platform", "await",
                   <<ColorCmd(HueStored(v))>>) IN
     /\ state' = HueStored(v)
     /\ Suspend(c)
     /\ ev' = Started(c)
  /\ lastSet' = [lastSet EXCEPT !.hue = v]
  /\ UNCHANGED <<variant, caps, connection, attached, bound, listeners, value,
                 timers, accepted>>

\* setHue after the await
SetHueDone(c, ok) ==
  /\ c \in InFlight
  /\ c.op = "setHue"
  /\ Release(c)
  /\ state' = IF ok THEN state ELSE HueAfterFailure(c)
  /\ value' = Commit(IF ok THEN SwitchResetVal(value) ELSE value, "hue", c.arg)
  /\ accepted' = IF ok THEN c.cmds[1].args[1] ELSE accepted
  /\ ev' = Finished(c, IF ok THEN "ok" ELSE "fail",
                    IF ok THEN SwitchResetUpd ELSE {}, ~ok, "none", <<>>)
  /\ UNCHANGED <<variant, caps, connection, attached, bound, listeners, timers, lastSet>>

\* setSaturation up to `await this.connection.color(...)`
SetSaturationStart(v) ==
  /\ "sat" \in bound
  /\ HasFree
  /\ LET c == Call("setSaturation", v, state[SatField], "platform", "await",
                   <<ColorCmd(SatStored(v))>>) IN
     /\ state' = SatStored(v)
     /\ Suspend(c)
     /\ ev' = Started(c)
  /\ lastSet' = [lastSet EXCEPT !.saturation = v]
  /\ UNCHANGED <<variant, caps, connection, attached, bound, listeners, value,
                 timers, accepted>>

\* setSaturation after the await
SetSaturationDone(c, ok) ==
  /\ c \in InFlight
  /\ c.op = "setSaturation"
  /\ Release(c)
  /\ state' = IF ok THEN state ELSE SatAfterFailure(c)
  /\ value' = Commit(IF ok THEN SwitchResetVal(value) ELSE value, "sat", c.arg)
  /\ accepted' = IF ok THEN c.cmds[1].args[1] ELSE accepted
  /\ ev' = Finished(c, IF ok THEN "ok" ELSE "fail",
                    IF ok THEN SwitchResetUpd ELSE {}, ~ok, "none", <<>>)
  /\ UNCHANGED <<variant, caps, connection, attached, bound, listeners, timers, lastSet>>

-----------------------------------------------------------------------------
(* Characteristic updates made by the accessory *)

\* the part of the accessory a handler's synchronous tail may change
World == [state |-> state, attached |-> attached, value |-> value, upd |-> {}]

\* characteristic.updateValue(v) on a characteristic held in lightCharacteristics
Push(w, c, v) == [w EXCEPT !.value[c] = v, !.upd = @ \cup {<<c, v>>}]

\* service.getCharacteristic(C).updateValue(v): getCharacteristic adds the
\* characteristic to the service when the service does not have it yet
PushGet(w, c, v) == [Push(w, c, v) EXCEPT !.attached = @ \cup {c}]

\* updateHueAndSaturation of the "event" revision: no guard at all
UpdateHueAndSaturationEvent(w, h, s) ==
  LET w1 == PushGet([w EXCEPT !.state["hue"] = h], "hue", h)
  IN  PushGet([w1 EXCEPT !.state["saturation"] = s], "sat", s)

\* updateHueAndSaturation of the "moon" revision: guarded by the characteristic's presence
UpdateHueAndSaturationMoon(w, h, s) ==
  LET w1 == IF "hue" \in w.attached
            THEN Push([w EXCEPT !.state["hue"] = h], "hue", h) ELSE w
  IN  IF "sat" \in w1.attached
      THEN Push([w1 EXCEPT !.state["saturation"] = s], "sat", s) ELSE w1

\* updateHueAndSaturation of the "night" revision: guarded by presence and by a
\* comparison with the cached value; the saturation branch compares color.hue
UpdateHueAndSaturationNight(w, h, s) ==
  LET w1 == IF "hue" \in w.attached /\ h # w.value["hue"]
            THEN Push([w EXCEPT !.state["hue"] = h], "hue", h) ELSE w
  IN  IF "sat" \in w1.attached /\ h # w1.value["sat"]
      THEN Push([w1 EXCEPT !.state["saturation"] = s], "sat", s) ELSE w1

UpdateHueAndSaturation(w, h, s) ==
  CASE variant = "event" -> UpdateHueAndSaturationEvent(w, h, s)
    [] variant = "moon" -> UpdateHueAndSaturationMoon(w, h, s)
    [] OTHER -> UpdateHueAndSaturationNight(w, h, s)

-----------------------------------------------------------------------------
(* setNightMode ("night" revision) *)

NightCall == Call("setNightMode", TRUE, 0, "platform", "await", <<NightSceneCmd>>)

\* setNightMode(true) up to `await this.connection.call('set_scene', ...)`; there is
\* no try block, so with no connection the TypeError rejects the handler
SetNightModeOnStart ==
  /\ "nightModeSwitchOn" \in bound
  /\ IF connection = "open"
     THEN /\ HasFree
          /\ Suspend(NightCall)
          /\ ev' = Started(NightCall)
     ELSE /\ calls' = calls
          /\ ev' = [Finished(NightCall, "fail", {}, FALSE, "rejected", <<>>)
                    EXCEPT !.arg = <<TRUE>>]
  /\ UNCHANGED <<variant, caps, connection, state, attached, bound, listeners,
                 value, timers, accepted, lastSet>>

\* the rest of setNightMode(true) once the scene call resolved:
\* updateHueAndSaturation(rgb(255,152,0)); brightness!.updateValue(1), which throws
\* when there is no brightness characteristic; power.updateValue(true)
NightModeTail(w) ==
  LET w1 == UpdateHueAndSaturationNight(w, NightHue, NightSat) IN
  IF "brightness" \in w1.attached
  THEN [w |-> Push(Push(w1, "brightness", NightBrightness), "power", TRUE),
        thrown |-> FALSE]
  ELSE [w |-> w1, thrown |-> TRUE]

\* setNightMode(true) after the await
SetNightModeOnDone(c, ok) ==
  /\ c \in InFlight
  /\ c.op = "setNightMode"
  /\ Release(c)
  /\ LET t == NightModeTail(World)
         rejected == ~ok \/ t.thrown
     IN
     /\ state' = IF ok THEN t.w.state ELSE state
     /\ value' = IF ~ok THEN value
                 ELSE IF t.thrown THEN t.w.value
                 ELSE Commit(t.w.value, "nightModeSwitchOn", TRUE)
     /\ ev' = Finished(c, IF ok THEN "ok" ELSE "fail", IF ok THEN t.w.upd ELSE {},
                       FALSE, IF rejected THEN "rejected" ELSE "none", <<>>)
  /\ UNCHANGED <<variant, caps, connection, attached, bound, listeners, timers,
                 accepted, lastSet>>

\* mutant: the switch is updated inside the handler instead of from a timer
SetNightModeOffInline ==
  /\ "nightModeSwitchOn" \in bound
  /\ value' = [value EXCEPT !["nightModeSwitchOn"] = TRUE]
  /\ ev' = [Quiet("done") EXCEPT !.fn = "setNightMode", !.arg = <<FALSE>>, !.res = "ok",
                                 !.upd = {<<"nightModeSwitchOn", TRUE>>}]
  /\ UNCHANGED <<variant, caps, connection, state, attached, bound, listeners,
                 calls, timers, accepted, lastSet>>

\* setNightMode(false): setTimeout(() => nightModeSwitchOn.updateValue(true), 0)
SetNightModeOff ==
  /\ "nightModeSwitchOn" \in bound
  /\ timers < MaxTimers
  /\ timers' = timers + 1
  /\ value' = Commit(value, "nightModeSwitchOn", FALSE)
  /\ ev' = [Quiet("done") EXCEPT !.fn = "setNightMode", !.arg = <<FALSE>>, !.res = "ok"]
  /\ UNCHANGED <<variant, caps, connection, state, attached, bound, listeners,
                 calls, accepted, lastSet>>

\* the timer callback: this.nightModeSwitchOn.updateValue(true)
TimerFire ==
  /\ timers > 0
  /\ timers' = timers - 1
  /\ value' = [value EXCEPT !["nightModeSwitchOn"] = TRUE]
  /\ ev' = [Quiet("timer") EXCEPT !.upd = {<<"nightModeSwitchOn", TRUE>>}]
  /\ UNCHANGED <<variant, caps, connection, state, attached, bound, listeners,
                 calls, accepted, lastSet>>

-----------------------------------------------------------------------------
(* setMoonLight ("moon" revision) *)

\* setMoonLight: changeMode('moonlight') or setPower(false), outside any try block
SetMoonLightStart(v) ==
  /\ "moonlight" \in bound
  /\ HasFree
  /\ LET c == Call("setMoonLight", v, 0, "platform", "await",
                   <<IF v THEN Cmd("changeMode", <<"moonlight">>)
                          ELSE Cmd("setPower", <<FALSE>>)>>) IN
     /\ Suspend(c)
     /\ ev' = Started(c)
  /\ UNCHANGED <<variant, caps, connection, state, attached, bound, listeners,
                 value, timers, accepted, lastSet>>

\* setMoonLight after the await: a rejection propagates to the platform
SetMoonLightDone(c, ok) ==
  /\ c \in InFlight
  /\ c.op = "setMoonLight"
  /\ Release(c)
  /\ value' = IF ok THEN Commit(value, "moonlight", c.arg) ELSE value
  /\ ev' = Finished(c, IF ok THEN "ok" ELSE "fail", {}, FALSE,
                    IF ok THEN "none" ELSE "rejected", <<>>)
  /\ UNCHANGED <<variant, caps, connection, state, attached, bound, listeners,
                 timers, accepted, lastSet>>

-----------------------------------------------------------------------------
(* startColorFlow ("moon" and "night" revisions) *)

FlowCall(stage, cmds) == Call("startColorFlow", <<>>, 0, "caller", stage, cmds)

\* startColorFlow up to `await this.connection.loadProperties(['flowing'])`
StartColorFlow ==
  /\ variant \in {"moon", "night"}
  /\ IF connection = "open"
     THEN /\ HasFree
          /\ Suspend(FlowCall("props", <<LoadFlowingCmd>>))
          /\ ev' = Started(FlowCall("props", <<LoadFlowingCmd>>))
     ELSE /\ calls' = calls
          /\ ev' = Finished(FlowCall("props", <<>>), "fail", {}, TRUE, "none", <<>>)
  /\ UNCHANGED <<variant, caps, connection, state, attached, bound, listeners,
                 value, timers, accepted, lastSet>>

\* mutant: the flow is started whatever the device reports
FlowCmdAlwaysStart(flowing) == StartFlowCmd

\* the command startColorFlow issues once the properties are loaded
FlowCmdFor(flowing) == IF flowing = "1" THEN StopFlowCmd ELSE StartFlowCmd

\* loadProperties resolved with props.flowing = flowing
FlowPropsLoaded(c, flowing) ==
  /\ c \in InFlight
  /\ c.op = "startColorFlow"
  /\ c.stage = "props"
  /\ LET d == [c EXCEPT !.stage = "cmd", !.cmds = Append(@, FlowCmdFor(flowing))] IN
     /\ calls' = (calls (-) SetToBag({c})) (+) SetToBag({d})
     /\ ev' = [Started(d) EXCEPT !.op = "resume", !.arg = <<flowing>>]
  /\ UNCHANGED <<variant, caps, connection, state, attached, bound, listeners,
                 value, timers, accepted, lastSet>>

\* loadProperties rejected: caught and logged
FlowPropsFailed(c) ==
  /\ c \in InFlight
  /\ c.op = "startColorFlow"
  /\ c.stage = "props"
  /\ Release(c)
  /\ ev' = Finished(c, "fail", {}, TRUE, "none", <<>>)
  /\ UNCHANGED <<variant, caps, connection, state, attached, bound, listeners,
                 value, timers, accepted, lastSet>>

\* the stop_cf or set_scene call settled
FlowCmdDone(c, ok) ==
  /\ c \in InFlight
  /\ c.op = "startColorFlow"
  /\ c.stage = "cmd"
  /\ Release(c)
  /\ ev' = Finished(c, IF ok THEN "ok" ELSE "fail", {}, ~ok, "none", <<>>)
  /\ UNCHANGED <<variant, caps, connection, state, attached, bound, listeners,
                 value, timers, accepted, lastSet>>

-----------------------------------------------------------------------------
(* Getters ("pull" revision) *)

Getters == {"getOn", "getBrightness", "getColorTemperature", "getHue", "getSaturation"}

GetterChar(g) ==
  CASE g = "getOn" -> "power"
    [] g = "getBrightness" -> "brightness"
    [] g = "getColorTemperature" -> "colorTmp"
    [] g = "getHue" -> "hue"
    [] OTHER -> "sat"

\* the device-client read each getter awaits
GetterCmd(g) ==
  CASE g = "getOn" -> Cmd("power", <<>>)
    [] g = "getBrightness" -> Cmd("brightness", <<>>)
    [] OTHER -> Cmd("color", <<>>)

\* what the device may answer to the getter's read
Readings(g) ==
  CASE g = "getOn" -> BOOLEAN
    [] g = "getBrightness" -> BrightVals
    [] g = "getColorTemperature" -> DevMired
    [] g = "getHue" -> HueVals
    [] OTHER -> SatVals

\* mutant: the getter answers with the platform's cached value
GetterResultCached(g, r) == value[GetterChar(g)]

\* what the getter returns for the reading r
GetterResult(g, r) ==
  IF g = "getColorTemperature" THEN Clamp(r, PullMinTemp, PullMaxTemp) ELSE r

\* a getter up to its await; with no connection the TypeError is caught, logged
\* and answered with HapStatusError(SERVICE_COMMUNICATION_FAILURE)
GetStart(g) ==
  /\ variant = "pull"
  /\ GetterChar(g) \in bound
  /\ LET c == Call(g, <<>>, 0, "platform", "await", <<GetterCmd(g)>>) IN
     IF connection = "open"
     THEN /\ HasFree
          /\ Suspend(c)
          /\ ev' = Started(c)
     ELSE /\ calls' = calls
          /\ ev' = Finished([c EXCEPT !.cmds = <<>>], "fail", {}, TRUE, "comm", <<>>)
  /\ UNCHANGED <<variant, caps, connection, state, attached, bound, listeners,
                 value, timers, accepted, lastSet>>

\* the read resolved with r: the getter returns, and the platform caches the result
GetDone(c, r) ==
  /\ c \in InFlight
  /\ c.op \in Getters
  /\ r \in Readings(c.op)
  /\ Release(c)
  /\ value' = Commit(value, GetterChar(c.op), GetterResult(c.op, r))
  /\ ev' = [Finished(c, "ok", {}, FALSE, "none", <<GetterResult(c.op, r)>>)
            EXCEPT !.arg = <<r>>]
  /\ UNCHANGED <<variant, caps, connection, state, attached, bound, listeners,
                 timers, accepted, lastSet>>

\* the read rejected: log, then throw the communication-failure status
GetFailed(c) ==
  /\ c \in InFlight
  /\ c.op \in Getters
  /\ Release(c)
  /\ ev' = Finished(c, "fail", {}, TRUE, "comm", <<>>)
  /\ UNCHANGED <<variant, caps, connection, state, attached, bound, listeners,
                 value, timers, accepted, lastSet>>

-----------------------------------------------------------------------------
(* Device events (event-driven revisions) *)

Colors == [model : ColorModels, mired : DevMired, hue : HueVals, saturation : SatVals]

IsTemperature(col) == col.model = "temperature" \/ col.model = "mired"

Observed(name, payload, w) ==
  [Quiet("event") EXCEPT !.fn = name, !.arg = <<payload>>, !.upd = w.upd]

\* the 'colorChanged' listener registered with the temperature capability
OnColorTemperature(w, col) ==
  IF ~IsTemperature(col) THEN w
  ELSE LET tmp == Clamp(col.mired, minTemp, maxTemp) IN
       CASE variant = "event" ->
              UpdateHueAndSaturation(PushGet(w, "colorTmp", col.mired),
                                     col.hue, col.saturation)
         [] variant = "moon" ->
              IF "colorTmp" \in w.attached
              THEN UpdateHueAndSaturation(Push(w, "colorTmp", tmp),
                                          col.hue, col.saturation)
              ELSE w
         [] OTHER ->
              IF "colorTmp" \in w.attached /\ tmp # w.value["colorTmp"]
              THEN UpdateHueAndSaturation(Push(w, "colorTmp", tmp),
                                          col.hue, col.saturation)
              ELSE w

\* mutant: the full-colour listener does not look at the colour model
OnColorFullUnfiltered(w, col) ==
  LET w1 == IF variant = "moon" /\ "colorTmp" \in w.attached
            THEN Push(w, "colorTmp", minTemp) ELSE w
  IN  UpdateHueAndSaturation(w1, col.hue, col.saturation)

\* the 'colorChanged' listener registered with the full-colour capability
OnColorFull(w, col) ==
  IF IsTemperature(col) THEN w
  ELSE LET w1 == IF variant = "moon" /\ "colorTmp" \in w.attached
                 THEN Push(w, "colorTmp", minTemp) ELSE w
       IN  UpdateHueAndSaturation(w1, col.hue, col.saturation)

\* the device emits 'colorChanged': the registered listeners run in the order
\* they were registered
ColorChanged(col) ==
  /\ listeners \cap {"colorChanged:temperature", "colorChanged:full"} # {}
  /\ LET w1 == IF "colorChanged:temperature" \in listeners
               THEN OnColorTemperature(World, col) ELSE World
         w2 == IF "colorChanged:full" \in listeners
               THEN OnColorFull(w1, col) ELSE w1
     IN
     /\ state' = w2.state
     /\ attached' = w2.attached
     /\ value' = w2.value
     /\ ev' = Observed("colorChanged", col, w2)
  /\ UNCHANGED <<variant, caps, connection, bound, listeners, calls, timers,
                 accepted, lastSet>>

\* mutant: a value event is ignored while a platform-issued set is in flight
OnValueSequenced(w, c, v) ==
  IF calls # EmptyBag THEN w
  ELSE IF c \in w.attached /\ v # w.value[c] THEN Push(w, c, v) ELSE w

\* the listener of a plain value event for characteristic c
OnValue(w, c, v) ==
  CASE variant = "event" -> PushGet(w, c, v)
    [] variant = "moon" -> IF c \in w.attached THEN Push(w, c, v) ELSE w
    [] OTHER -> IF c \in w.attached /\ v # w.value[c] THEN Push(w, c, v) ELSE w

\* the device emits 'brightnessChanged'
BrightnessChanged(b) ==
  /\ "brightnessChanged" \in listeners
  /\ LET w == OnValue(World, "brightness", b) IN
     /\ attached' = w.attached
     /\ value' = w.value
     /\ ev' = Observed("brightnessChanged", b, w)
  /\ UNCHANGED <<variant, caps, connection, state, bound, listeners, calls,
                 timers, accepted, lastSet>>

\* the device emits 'powerChanged'
PowerChanged(p) ==
  /\ "powerChanged" \in listeners
  /\ LET w == OnValue(World, "power", p) IN
     /\ attached' = w.attached
     /\ value' = w.value
     /\ ev' = Observed("powerChanged", p, w)
  /\ UNCHANGED <<variant, caps, connection, state, bound, listeners, calls,
                 timers, accepted, lastSet>>

\* the device emits 'modeChanged': moonlight?.updateValue(mode === 'moonlight')
ModeChanged(mode) ==
  /\ "modeChanged" \in listeners
  /\ LET w == IF "moonlight" \in attached
              THEN Push(World, "moonlight", mode = "moonlight") ELSE World IN
     /\ value' = w.value
     /\ ev' = Observed("modeChanged", mode, w)
  /\ UNCHANGED <<variant, caps, connection, state, attached, bound, listeners,
                 calls, timers, accepted, lastSet>>

\* the device emits 'updateMoonlightBrightness'
MoonlightBrightnessChanged(b) ==
  /\ "updateMoonlightBrightness" \in listeners
  /\ LET w == IF "moonlightBrightness" \in attached
              THEN Push(World, "moonlightBrightness", b) ELSE World IN
     /\ value' = w.value
     /\ ev' = Observed("updateMoonlightBrightness", b, w)
  /\ UNCHANGED <<variant, caps, connection, state, attached, bound, listeners,
                 calls, timers, accepted, lastSet>>

-----------------------------------------------------------------------------
(* The accessory *)

Settle ==
  \E c \in InFlight :
    \/ \E ok \in BOOLEAN : SetOnDone(c, ok)
    \/ \E ok \in BOOLEAN : SetBrightnessDone(c, ok)
    \/ \E ok \in BOOLEAN : SetColorTemperatureDone(c, ok)
    \/ \E ok \in BOOLEAN : SetHueDone(c, ok)
    \/ \E ok \in BOOLEAN : SetSaturationDone(c, ok)
    \/ \E ok \in BOOLEAN : SetNightModeOnDone(c, ok)
    \/ \E ok \in BOOLEAN : SetMoonLightDone(c, ok)
    \/ \E f \in FlowingVals : FlowPropsLoaded(c, f)
    \/ FlowPropsFailed(c)
    \/ \E ok \in BOOLEAN : FlowCmdDone(c, ok)
    \/ \E r \in Readings(c.op) : GetDone(c, r)
    \/ GetFailed(c)

Invoke ==
  \/ \E v \in BOOLEAN : SetOnStart(v)
  \/ \E v \in BrightVals : SetBrightnessStart(v)
  \/ \E v \in BrightVals : SetMoonLightBrightness(v)
  \/ \E m \in MiredInputs : SetColorTemperatureStart(m)
  \/ \E v \in HueVals : SetHueStart(v)
  \/ \E v \in SatVals : SetSaturationStart(v)
  \/ SetNightModeOnStart
  \/ SetNightModeOff
  \/ \E v \in BOOLEAN : SetMoonLightStart(v)
  \/ StartColorFlow
  \/ \E g \in Getters : GetStart(g)

Emit ==
  \/ \E col \in Colors : ColorChanged(col)
  \/ \E b \in BrightVals : BrightnessChanged(b)
  \/ \E p \in BOOLEAN : PowerChanged(p)
  \/ \E mode \in {"moonlight", "normal"} : ModeChanged(mode)
  \/ \E b \in BrightVals : MoonlightBrightnessChanged(b)

Next == Connect \/ ConnectFail \/ Invoke \/ Settle \/ Emit \/ TimerFire

Spec == Init /\ [][Next]_vars

-----------------------------------------------------------------------------
(* The hue and saturation handlers alone *)

\* a device with full colour, alone or with every other capability
InitHS == Init /\ caps \in {{"full"}, Caps}

NextHS ==
  \/ Connect
  \/ \E v \in HueVals : SetHueStart(v)
  \/ \E v \in SatVals : SetSaturationStart(v)
  \/ \E c \in InFlight, ok \in BOOLEAN : SetHueDone(c, ok)
  \/ \E c \in InFlight, ok \in BOOLEAN : SetSaturationDone(c, ok)

SpecHS == InitHS /\ [][NextHS]_vars

\* the step is the start of an invocation of handler fn
StartOf(fn) == ev'.op = "start" /\ ev'.fn = fn

\* the step settles the invocation c of handler fn with result res
SettleOf(c, fn, res) ==
  /\ c.op = fn
  /\ calls' = calls (-) SetToBag({c})
  /\ ev'.op = "done" /\ ev'.fn = fn /\ ev'.res = res

(* C1, as stated: each setHue / setSaturation call sends exactly one command
   hsl(H, S%, 100%) with H the value of the most recent setHue call and S the
   value of the most recent setSaturation call (0 for a channel never set). *)
C1_MostRecentCalls ==
  [][(StartOf("setHue") \/ StartOf("setSaturation")) =>
       ev'.out = <<Cmd("color", <<HslString(lastSet'.hue, lastSet'.saturation)>>)>>]_vars

(* C1, amended: each setHue / setSaturation call sends exactly one command
   hsl(H, S%, 100%) carrying both channels: the channel being set holds the
   argument of this call and the other channel holds the shadow value of that
   channel at the time of the call; settling the call sends nothing more. *)
C1_CombinedCommand ==
  [][/\ StartOf("setHue") =>
          ev'.out = <<Cmd("color", <<HslString(ev'.arg[1], state[SatField])>>)>>
     /\ StartOf("setSaturation") =>
          ev'.out = <<Cmd("color", <<HslString(state[HueField], ev'.arg[1])>>)>>
     /\ (ev'.op = "done" /\ ev'.fn \in {"setHue", "setSaturation"}) =>
          ev'.out = <<>>]_vars

\* setSaturation was called after setHue, both with a value other than the initial 0
C1_Witness ==
  /\ ev.op = "start" /\ ev.fn = "setSaturation"
  /\ ev.out = <<Cmd("color", <<HslString(NightHue, NightSat)>>)>>
  /\ lastSet = [hue |-> NightHue, saturation |-> NightSat]

(* C2: when the colour command of setHue (setSaturation) fails, the shadow hue
   (saturation) is restored to the value it had immediately before that call,
   the other shadow channel is unchanged, the handler updates no characteristic
   and returns no error to the platform. *)
C2_FailureRestores ==
  [][\A c \in InFlight :
       /\ SettleOf(c, "setHue", "fail") =>
            /\ state'[HueField] = c.old
            /\ state'[SatField] = state[SatField]
            /\ ev'.upd = {} /\ ev'.raised = "none"
       /\ SettleOf(c, "setSaturation", "fail") =>
            /\ state'[SatField] = c.old
            /\ state'[HueField] = state[HueField]
            /\ ev'.upd = {} /\ ev'.raised = "none"]_vars

\* the colour the shadow state stands for
ShadowColor == HslString(state[HueField], state[SatField])

(* C3: once every overlapping setHue / setSaturation call has completed, the
   shadow hue and saturation are those of the last colour command the device
   accepted, or 0/0 if it accepted none (checked on the "night" revision). *)
C3_ShadowTracksAccepted ==
  (variant = "night" /\ calls = EmptyBag) =>
     ShadowColor = (IF accepted = <<>> THEN HslString(0, 0) ELSE accepted)

-----------------------------------------------------------------------------
(* The "night" revision: the night-mode switch among the other setters *)

\* the capabilities the night-mode handlers depend on, in every combination
InitNight == Init /\ variant = "night" /\ caps \in SUBSET {"full", "brightness"}

NextNight ==
  \/ Connect
  \/ ConnectFail
  \/ SetNightModeOnStart
  \/ SetNightModeOff
  \/ TimerFire
  \/ \E v \in BOOLEAN : SetOnStart(v)
  \/ \E v \in BrightVals : SetBrightnessStart(v)
  \/ \E c \in InFlight, ok \in BOOLEAN : SetNightModeOnDone(c, ok)
  \/ \E c \in InFlight, ok \in BOOLEAN : SetOnDone(c, ok)
  \/ \E c \in InFlight, ok \in BOOLEAN : SetBrightnessDone(c, ok)

SpecNight == InitNight /\ [][NextNight]_vars

\* the event loop runs every timer callback that is due
FairNight == SpecNight /\ WF_vars(TimerFire)

(* C4: whenever setNightMode(true) is invoked and the scene command succeeds,
   on completion power is true, brightness is 1, and the hue / saturation
   characteristics and the shadow state hold the night-light colour, whatever
   the device's capabilities.  Stated leniently: a characteristic the accessory
   does not have is not required to hold anything. *)
C4_NightModeApplies ==
  [][\A c \in InFlight :
       SettleOf(c, "setNightMode", "ok") =>
         /\ value'["power"] = TRUE
         /\ "brightness" \in attached => value'["brightness"] = NightBrightness
         /\ "hue" \in attached =>
              value'["hue"] = NightHue /\ state'["hue"] = NightHue
         /\ "sat" \in attached =>
              value'["sat"] = NightSat /\ state'["saturation"] = NightSat]_vars

\* the step is setNightMode(false)
NightModeOffStep ==
  ev'.op = "done" /\ ev'.fn = "setNightMode" /\ ev'.arg = <<FALSE>>

(* C5: setNightMode(false) issues no device command and changes no light
   characteristic or shadow value; it only schedules a timer, and the switch
   is set back to true by that timer, after the handler has returned (the
   switch is not true when the handler returns). *)
C5_NightModeOffDeferred ==
  /\ [][NightModeOffStep =>
          /\ ev'.out = <<>> /\ ev'.upd = {} /\ calls' = calls
          /\ state' = state
          /\ \A ch \in Chars \ {"nightModeSwitchOn"} : value'[ch] = value[ch]
          /\ value'["nightModeSwitchOn"] = FALSE
          /\ timers' = timers + 1]_vars
  /\ (timers > 0) ~> (ev.op = "timer" /\ value["nightModeSwitchOn"] = TRUE)

\* setNightMode(false) has just returned on a connected accessory whose light is on
C5_Witness ==
  /\ ev.op = "done" /\ ev.fn = "setNightMode" /\ ev.arg = <<FALSE>>
  /\ timers = 1 /\ connection = "open" /\ value["power"] = TRUE

-----------------------------------------------------------------------------
(* The event-driven revisions under device events *)

InitCaps == Init /\ variant # "pull"

NextCaps == Connect \/ ConnectFail \/ Emit

SpecCaps == InitCaps /\ [][NextCaps]_vars

\* the capability a characteristic stands for
CapOf(ch) ==
  CASE ch = "colorTmp" -> "temperature"
    [] ch \in {"hue", "sat"} -> "full"
    [] ch = "brightness" -> "brightness"
    [] OTHER -> "nightmode"

(* C6: in the event-driven revisions, for every capability the device does not
   report, the corresponding characteristic is never attached, its setter is
   never bound and no operation updates it.  Stated leniently: the switch the
   "night" revision attaches at construction is not counted. *)
C6_CapabilityGating ==
  variant # "pull" =>
    \A ch \in Chars \ {"power", "nightModeSwitchOn"} :
      CapOf(ch) \notin caps =>
        /\ ch \notin attached
        /\ ch \notin bound
        /\ \A u \in ev.upd : u[1] # ch

-----------------------------------------------------------------------------
(* startColorFlow beside the power setter *)

InitFlow == Init /\ variant \in {"moon", "night"} /\ caps = Caps

NextFlow ==
  \/ Connect
  \/ ConnectFail
  \/ StartColorFlow
  \/ \E v \in BOOLEAN : SetOnStart(v)
  \/ \E c \in InFlight, f \in FlowingVals : FlowPropsLoaded(c, f)
  \/ \E c \in InFlight : FlowPropsFailed(c)
  \/ \E c \in InFlight, ok \in BOOLEAN : FlowCmdDone(c, ok)
  \/ \E c \in InFlight, ok \in BOOLEAN : SetOnDone(c, ok)

SpecFlow == InitFlow /\ [][NextFlow]_vars

\* the device calls a startColorFlow invocation in flight has issued
FlowIssuedSoFar(c) ==
  \/ c.stage = "props" /\ c.cmds = <<LoadFlowingCmd>>
  \/ c.stage = "cmd" /\ c.cmds \in {<<LoadFlowingCmd, StopFlowCmd>>,
                                    <<LoadFlowingCmd, StartFlowCmd>>}

(* C7: startColorFlow first reads 'flowing'; if it is '1' it issues exactly one
   stop_cf and no set_scene, otherwise exactly one set_scene and no stop_cf; if
   the read or the command fails the error is logged and nothing more is issued. *)
C7_FlowToggle ==
  /\ [](\A c \in InFlight : c.op = "startColorFlow" => FlowIssuedSoFar(c))
  /\ [][/\ StartOf("startColorFlow") => ev'.out = <<LoadFlowingCmd>>
        /\ (ev'.op = "resume" /\ ev'.fn = "startColorFlow") =>
              /\ \E c \in InFlight : c.op = "startColorFlow" /\ c.stage = "props"
              /\ ev'.out = <<IF ev'.arg = <<"1">> THEN StopFlowCmd ELSE StartFlowCmd>>
        /\ (ev'.op = "done" /\ ev'.fn = "startColorFlow") =>
              /\ ev'.out = <<>>
              /\ ev'.raised = "none"
              /\ ev'.res = "fail" => ev'.logged]_vars

\* the device said it is flowing and the invocation has issued stop_cf
C7_Witness ==
  /\ ev.op = "resume" /\ ev.fn = "startColorFlow" /\ ev.arg = <<"1">>
  /\ ev.out = <<StopFlowCmd>>

-----------------------------------------------------------------------------
(* setColorTemperature over the whole mired range *)

AllMired == PullMinTemp..PullMaxTemp

InitKelvin == Init /\ caps \in {{"temperature"}, Caps}

\* the first invocation on a freshly connected accessory
NextKelvin ==
  \/ Connect
  \/ ev.op = "connect" /\ \E m \in AllMired : SetColorTemperatureStart(m)
  \/ \E c \in InFlight, ok \in BOOLEAN : SetColorTemperatureDone(c, ok)

SpecKelvin == InitKelvin /\ [][NextKelvin]_vars

\* n is the integer nearest to 1000000 / m, the upper one on a tie
NearestKelvin(n, m) ==
  2 * n * m - m <= 2 * MiredScale /\ 2 * MiredScale < 2 * n * m + m

(* C8: for every integer mired in [140,500], setColorTemperature sends the colour
   '<N>K' with N = round(1000000 / mired), a positive integer in 2000..7143. *)
C8_KelvinRounded ==
  (ev.op = "start" /\ ev.fn = "setColorTemperature" /\ ev.arg[1] \in AllMired) =>
     /\ Len(ev.out) = 1
     /\ ev.out[1].method = "color"
     /\ LET k == ev.out[1].args[1] IN
          /\ k[2] = "K"
          /\ k[1] \in 2000..7143
          /\ NearestKelvin(k[1], ev.arg[1])

\* a tie-free input whose quotient rounds up: 1000000 / 140 = 7142.86
C8_Witness ==
  /\ ev.op = "start" /\ ev.fn = "setColorTemperature" /\ ev.arg = <<PullMinTemp>>
  /\ ev.out = <<Cmd("color", <<<<7143, "K">>>>)>>

-----------------------------------------------------------------------------
(* The setters other than hue and saturation, in every revision *)

InitSetters == Init /\ caps = Caps

NextSetters ==
  \/ Connect
  \/ ConnectFail
  \/ \E v \in BOOLEAN : SetOnStart(v)
  \/ \E v \in BrightVals : SetBrightnessStart(v)
  \/ \E v \in BrightVals : SetMoonLightBrightness(v)
  \/ \E m \in MiredInputs : SetColorTemperatureStart(m)
  \/ SetNightModeOnStart
  \/ SetNightModeOff
  \/ TimerFire
  \/ \E v \in BOOLEAN : SetMoonLightStart(v)
  \/ \E c \in InFlight, ok \in BOOLEAN : SetOnDone(c, ok)
  \/ \E c \in InFlight, ok \in BOOLEAN : SetBrightnessDone(c, ok)
  \/ \E c \in InFlight, ok \in BOOLEAN : SetColorTemperatureDone(c, ok)
  \/ \E c \in InFlight, ok \in BOOLEAN : SetNightModeOnDone(c, ok)
  \/ \E c \in InFlight, ok \in BOOLEAN : SetMoonLightDone(c, ok)

SpecSetters == InitSetters /\ [][NextSetters]_vars

SetterNames == {"setOn", "setBrightness", "setColorTemperature", "setHue",
                "setSaturation", "setNightMode", "setMoonLight"}

(* C9: every setter wraps its device-client call: when the call fails the error
   is logged and the setter completes normally, raising nothing to the platform. *)
C9_SettersSwallow ==
  [][\A c \in InFlight :
       (c.op \in SetterNames /\ SettleOf(c, c.op, "fail")) =>
          ev'.logged /\ ev'.raised = "none"]_vars

-----------------------------------------------------------------------------
(* The getters of the "pull" revision *)

InitPull == Init /\ variant = "pull" /\ caps \in {{}, {"temperature"}, Caps}

NextPull ==
  \/ Connect
  \/ ConnectFail
  \/ \E g \in Getters : GetStart(g)
  \/ \E c \in InFlight : \E r \in Readings(c.op) : GetDone(c, r)
  \/ \E c \in InFlight : GetFailed(c)

SpecPull == InitPull /\ [][NextPull]_vars

\* a getter invocation has just ended
GetterEnded == ev.op = "done" /\ ev.fn \in Getters

(* C10, as stated: each getter returns the value just read from the device
   client, or on a failed read logs and raises the communication failure. *)
C10_ReturnsReading ==
  GetterEnded =>
    IF ev.res = "ok" THEN ev.ret = ev.arg /\ ev.raised = "none"
    ELSE ev.logged /\ ev.raised = "comm" /\ ev.ret = <<>>

(* C10, amended: each getter returns the value just read from the device client,
   getColorTemperature the mired just read limited to [140,500]; on a failed
   read it logs and raises the communication failure and returns nothing. *)
C10_ReturnsFreshReading ==
  GetterEnded =>
    IF ev.res = "ok"
    THEN /\ ev.raised = "none"
         /\ LET r == ev.arg[1] IN
            ev.ret = <<IF ev.fn # "getColorTemperature" THEN r
                       ELSE IF r < PullMinTemp THEN PullMinTemp
                       ELSE IF r > PullMaxTemp THEN PullMaxTemp
                       ELSE r>>
    ELSE ev.logged /\ ev.raised = "comm" /\ ev.ret = <<>>

\* getColorTemperature has answered a reading above the range with the upper limit,
\* while the power getter is still awaiting the device
C10_Witness ==
  /\ GetterEnded /\ ev.fn = "getColorTemperature" /\ ev.res = "ok"
  /\ ev.arg = <<600>> /\ ev.ret = <<PullMaxTemp>>
  /\ \E c \in InFlight : c.op = "getOn"

-----------------------------------------------------------------------------
(* A connection attempt that may fail, in every revision *)

InitFail == Init /\ caps = Caps

NextFail ==
  \/ Connect
  \/ ConnectFail
  \/ \E v \in BOOLEAN : SetOnStart(v)
  \/ \E v \in BrightVals : SetBrightnessStart(v)
  \/ SetNightModeOnStart
  \/ SetNightModeOff
  \/ TimerFire
  \/ StartColorFlow
  \/ \E g \in Getters : GetStart(g)
  \/ \E p \in BOOLEAN : PowerChanged(p)
  \/ \E c \in InFlight, ok \in BOOLEAN : SetOnDone(c, ok)
  \/ \E c \in InFlight, ok \in BOOLEAN : SetBrightnessDone(c, ok)
  \/ \E c \in InFlight, ok \in BOOLEAN : SetNightModeOnDone(c, ok)
  \/ \E c \in InFlight, f \in FlowingVals : FlowPropsLoaded(c, f)
  \/ \E c \in InFlight : FlowPropsFailed(c)
  \/ \E c \in InFlight, ok \in BOOLEAN : FlowCmdDone(c, ok)
  \/ \E c \in InFlight : \E r \in Readings(c.op) : GetDone(c, r)
  \/ \E c \in InFlight : GetFailed(c)

SpecFail == InitFail /\ [][NextFail]_vars

\* the handlers the constructor binds before the connection exists
BoundAtConstruction == {"power", "nightModeSwitchOn"}

(* C11: if the connection attempt fails, the failure is logged, the connection
   never leaves the failed state (no second attempt), no capability-dependent
   setter and no device event listener is ever registered, and no step issues a
   device command or has a device call in flight. *)
C11_FailedConnection ==
  /\ [][(connection = "pending" /\ connection' = "failed") =>
          ev'.op = "connectFail" /\ ev'.logged]_vars
  /\ [][connection = "failed" => connection' = "failed"]_vars
  /\ [](connection = "failed" =>
          /\ bound \subseteq BoundAtConstruction
          /\ listeners = {}
          /\ ev.out = <<>>
          /\ calls = EmptyBag)

\* on a device with every capability the connection failed, and setOn was then invoked
C11_Witness ==
  /\ connection = "failed" /\ caps = Caps
  /\ ev.op = "done" /\ ev.fn = "setOn" /\ ev.res = "fail" /\ ev.logged

-----------------------------------------------------------------------------
(* The colour temperature, as the device reports it and as it is set *)

InitTemp == Init /\ caps \in {{"temperature"}, {"temperature", "full"}}

NextTemp ==
  \/ Connect
  \/ \E col \in Colors : ColorChanged(col)
  \/ \E m \in MiredInputs : SetColorTemperatureStart(m)
  \/ \E g \in Getters : GetStart(g)
  \/ \E c \in InFlight, ok \in BOOLEAN : SetColorTemperatureDone(c, ok)
  \/ \E c \in InFlight : \E r \in Readings(c.op) : GetDone(c, r)
  \/ \E c \in InFlight : GetFailed(c)

SpecTemp == InitTemp /\ [][NextTemp]_vars

(* C12: in every event-driven revision (each declares the bounds 154..370 on the
   colour-temperature characteristic) every value a handler pushes into that
   characteristic lies within [154,370], whatever mired the device reports; in
   the "pull" revision getColorTemperature returns min(max(t,140),500) for the
   reported mired t. *)
C12_TemperatureInRange ==
  /\ variant # "pull" =>
       \A u \in ev.upd : u[1] = "colorTmp" => u[2] \in minTemp..maxTemp
  /\ (ev.op = "done" /\ ev.fn = "getColorTemperature" /\ ev.res = "ok") =>
       ev.ret = <<Min(Max(ev.arg[1], PullMinTemp), PullMaxTemp)>>

-----------------------------------------------------------------------------
(* The "night" revision under device events alone *)

InitDedup ==
  Init /\ variant = "night" /\ caps \in SUBSET {"temperature", "full", "brightness"}

NextDedup ==
  \/ Connect
  \/ \E col \in Colors : ColorChanged(col)
  \/ \E b \in BrightVals : BrightnessChanged(b)
  \/ \E p \in BOOLEAN : PowerChanged(p)

SpecDedup == InitDedup /\ [][NextDedup]_vars

\* the step handles the device event name
EventStep(name) == ev'.op = "event" /\ ev'.fn = name

\* the step calls updateValue on characteristic ch
Updates(ch) == \E u \in ev'.upd : u[1] = ch

(* C13: in the latest revision a device event updates a characteristic exactly
   when the value it carries for that characteristic differs from the
   characteristic's current value: power and brightness for their events, the
   colour temperature (taken within its declared bounds) for a temperature
   event, hue and saturation for a full-colour event; and the update stores the
   carried value. *)
C13_UpdatesIffDiffers ==
  [][/\ EventStep("powerChanged") =>
          /\ Updates("power") <=> ev'.arg[1] # value["power"]
          /\ value'["power"] = ev'.arg[1]
     /\ (EventStep("brightnessChanged") /\ "brightness" \in attached) =>
          /\ Updates("brightness") <=> ev'.arg[1] # value["brightness"]
          /\ value'["brightness"] = ev'.arg[1]
     /\ (EventStep("colorChanged") /\ IsTemperature(ev'.arg[1])
           /\ "colorTmp" \in attached) =>
          LET tmp == Clamp(ev'.arg[1].mired, minTemp, maxTemp) IN
          /\ Updates("colorTmp") <=> tmp # value["colorTmp"]
          /\ value'["colorTmp"] = tmp
     /\ (EventStep("colorChanged") /\ ~IsTemperature(ev'.arg[1])
           /\ "hue" \in attached) =>
          /\ Updates("hue") <=> ev'.arg[1].hue # value["hue"]
          /\ value'["hue"] = ev'.arg[1].hue
          /\ Updates("sat") <=> ev'.arg[1].saturation # value["sat"]
          /\ value'["sat"] = ev'.arg[1].saturation]_vars

-----------------------------------------------------------------------------
(* colorChanged on a device with both colour capabilities *)

InitModel == Init /\ variant # "pull" /\ caps \in {{"temperature", "full"}, Caps}

NextModel ==
  \/ Connect
  \/ \E col \in Colors : ColorChanged(col)
  \/ \E b \in BrightVals : BrightnessChanged(b)

SpecModel == InitModel /\ [][NextModel]_vars

\* what a temperature event leaves in the colour-temperature characteristic
ReportedTemperature(col) ==
  IF variant = "event" THEN col.mired ELSE Clamp(col.mired, minTemp, maxTemp)

\* a temperature event is handled by the temperature listener alone
TemperatureEventHandled(col) ==
  /\ value'["colorTmp"] = ReportedTemperature(col)
  /\ (variant = "night" /\ ReportedTemperature(col) = value["colorTmp"]) =>
        /\ ev'.upd = {}
        /\ state' = state

(* C14, as stated: on a device with both colour capabilities a colorChanged
   event is handled by one listener, chosen by the colour model: only an event
   of model 'temperature' or 'mired' changes the colour-temperature
   characteristic; an event of any other model never changes it. *)
C14_OnlyTemperatureEvents ==
  [][(EventStep("colorChanged") /\ {"temperature", "full"} \subseteq caps) =>
       LET col == ev'.arg[1] IN
       /\ IsTemperature(col) => TemperatureEventHandled(col)
       /\ ~IsTemperature(col) => value'["colorTmp"] = value["colorTmp"]]_vars

(* C14, amended: as above, except that in the "moon" revision an event of any
   other model resets the colour-temperature characteristic to the declared
   minimum 154; in the "event" and "night" revisions it leaves it unchanged. *)
C14_ModelSelectsListener ==
  [][(EventStep("colorChanged") /\ {"temperature", "full"} \subseteq caps) =>
       LET col == ev'.arg[1] IN
       /\ IsTemperature(col) => TemperatureEventHandled(col)
       /\ ~IsTemperature(col) =>
            /\ value'["colorTmp"] =
                 (IF variant = "moon" THEN minTemp ELSE value["colorTmp"])
            /\ Updates("colorTmp") <=> variant = "moon"
            /\ value'["hue"] = col.hue]_vars

\* the "moon" revision has handled a full-colour event and reset the temperature
C14_Witness ==
  /\ variant = "moon" /\ {"temperature", "full"} \subseteq caps
  /\ ev.op = "event" /\ ev.fn = "colorChanged" /\ ev.arg[1].model = "rgb"
  /\ ev.arg[1].hue = NightHue
  /\ ev.upd = {<<"colorTmp", minTemp>>, <<"hue", NightHue>>,
               <<"sat", ev.arg[1].saturation>>}

-----------------------------------------------------------------------------
(* Platform-issued sets racing with device events ("night" revision) *)

\* full-colour payloads; the mired they carry is not read by the full-colour listener
FullColors == {col \in Colors : col.model = "rgb" /\ col.mired = 250}

InitRace == Init /\ variant = "night" /\ caps = {"full", "brightness"}

NextRace ==
  \/ Connect
  \/ \E v \in BrightVals : SetBrightnessStart(v)
  \/ \E v \in HueVals : SetHueStart(v)
  \/ \E col \in FullColors : ColorChanged(col)
  \/ \E b \in BrightVals : BrightnessChanged(b)
  \/ \E c \in InFlight, ok \in BOOLEAN : SetBrightnessDone(c, ok)
  \/ \E c \in InFlight, ok \in BOOLEAN : SetHueDone(c, ok)

SpecRace == InitRace /\ [][NextRace]_vars

(* C15: sets and device events on one characteristic are not sequenced, and the
   last writer wins: a device event leaves its value in the characteristic
   (brightness, hue) whatever sets are in flight or were accepted, and a hue it
   changes is also written to the shadow state; a completed set leaves its
   argument in the characteristic.  A stale event after a newer accepted set
   therefore overwrites it (the witness). *)
C15_LastWriterWins ==
  [][/\ EventStep("brightnessChanged") => value'["brightness"] = ev'.arg[1]
     /\ EventStep("colorChanged") =>
          /\ value'["hue"] = ev'.arg[1].hue
          /\ ev'.arg[1].hue # value["hue"] =>
               /\ state'["hue"] = ev'.arg[1].hue
               /\ Updates("hue")
     /\ \A c \in InFlight, res \in {"ok", "fail"} :
          /\ SettleOf(c, "setBrightness", res) => value'["brightness"] = c.arg
          /\ SettleOf(c, "setHue", res) => value'["hue"] = c.arg]_vars

\* the device accepted setHue(36) and setBrightness(50); a colorChanged event that
\* still reports hue 0 has then overwritten the characteristic and the shadow hue
C15_Witness ==
  /\ ev.op = "event" /\ ev.fn = "colorChanged" /\ ev.arg[1].hue = 0
  /\ <<"hue", 0>> \in ev.upd
  /\ accepted = HslString(NightHue, 0)
  /\ calls = EmptyBag
  /\ value["hue"] = 0 /\ state["hue"] = 0
  /\ value["brightness"] = 50

-----------------------------------------------------------------------------
(* The shadow colour under colour events and colour sets ("night" revision) *)

\* colour payloads of both kinds; a reported 250 or 600 mired changes the characteristic
ShadowColors ==
  {col \in Colors : col.model # "temperature" /\ col.mired # 100
                      /\ col.saturation = NightSat}

InitShadow == Init /\ variant = "night" /\ caps = {"temperature", "full"}

NextShadow ==
  \/ Connect
  \/ \E v \in HueVals : SetHueStart(v)
  \/ \E v \in SatVals : SetSaturationStart(v)
  \/ \E col \in ShadowColors : ColorChanged(col)
  \/ \E c \in InFlight, ok \in BOOLEAN : SetHueDone(c, ok)
  \/ \E c \in InFlight, ok \in BOOLEAN : SetSaturationDone(c, ok)

SpecShadow == InitShadow /\ [][NextShadow]_vars

(* C16: in the "night" revision, once a full-colour colorChanged event, or a
   temperature event that changed the colour-temperature characteristic, has
   been handled on a full-colour device, the shadow hue equals the hue
   characteristic, the shadow saturation equals the saturation characteristic,
   and both equal the hue and saturation the event carried. *)
C16_ShadowFollowsEvent ==
  [][(EventStep("colorChanged") /\ "full" \in caps
        /\ (IsTemperature(ev'.arg[1]) => Updates("colorTmp"))) =>
       /\ state'["hue"] = ev'.arg[1].hue
       /\ value'["hue"] = ev'.arg[1].hue
       /\ state'["saturation"] = ev'.arg[1].saturation
       /\ value'["sat"] = ev'.arg[1].saturation]_vars

-----------------------------------------------------------------------------
(* The night-mode switch under the light's setters ("night" revision) *)

InitSwitch == Init /\ variant = "night" /\ caps = {"temperature", "full", "brightness"}

\* the switch is turned on by the timer of setNightMode(false); each setter is
\* invoked with one value
NextSwitch ==
  \/ Connect
  \/ SetNightModeOff
  \/ TimerFire
  \/ \E v \in BOOLEAN : SetOnStart(v)
  \/ SetBrightnessStart(NightBrightness)
  \/ SetColorTemperatureStart(minTemp)
  \/ SetHueStart(NightHue)
  \/ SetSaturationStart(NightSat)
  \/ \E c \in InFlight, ok \in BOOLEAN : SetOnDone(c, ok)
  \/ \E c \in InFlight, ok \in BOOLEAN : SetBrightnessDone(c, ok)
  \/ \E c \in InFlight, ok \in BOOLEAN : SetColorTemperatureDone(c, ok)
  \/ \E c \in InFlight, ok \in BOOLEAN : SetHueDone(c, ok)
  \/ \E c \in InFlight, ok \in BOOLEAN : SetSaturationDone(c, ok)

SpecSwitch == InitSwitch /\ [][NextSwitch]_vars

\* the setters that reset the switch whatever their argument
ResettingSetters == {"setBrightness", "setColorTemperature", "setHue", "setSaturation"}

(* C17: in the "night" revision a successful setBrightness, setColorTemperature,
   setHue, setSaturation or setOn(false) leaves the night-mode switch off on
   completion, updating it when it was on; a failed set of any kind and a
   successful setOn(true) leave the switch as it was. *)
C17_SetsResetSwitch ==
  [][\A c \in InFlight :
       /\ (\/ \E fn \in ResettingSetters : SettleOf(c, fn, "ok")
           \/ SettleOf(c, "setOn", "ok") /\ c.arg = FALSE) =>
            /\ value'["nightModeSwitchOn"] = FALSE
            /\ value["nightModeSwitchOn"] <=> <<"nightModeSwitchOn", FALSE>> \in ev'.upd
       /\ (\/ \E fn \in ResettingSetters \cup {"setOn"} : SettleOf(c, fn, "fail")
           \/ SettleOf(c, "setOn", "ok") /\ c.arg = TRUE) =>
            /\ value'["nightModeSwitchOn"] = value["nightModeSwitchOn"]
            /\ ev'.upd = {}]_vars

\* a setHue accepted by the device has just switched the night mode off
C17_Witness ==
  /\ ev.op = "done" /\ ev.fn = "setHue" /\ ev.res = "ok"
  /\ ev.upd = {<<"nightModeSwitchOn", FALSE>>}
  /\ value["nightModeSwitchOn"] = FALSE

-----------------------------------------------------------------------------
(* The handlers bound at construction, invoked without a connection *)

\* the characteristic the platform writes through the handler fn
WrittenBy(fn) == IF fn = "setOn" THEN "power" ELSE "nightModeSwitchOn"

(* C18: setOn (every revision) and setNightMode ("night" revision), invoked
   while the connection is still pending or after it failed, issue no device
   command, raise no error to the platform, update no characteristic and leave
   the shadow state unchanged.  Stated leniently: the characteristic being
   written may take the value the platform wrote. *)
C18_UnconnectedSettersQuiet ==
  [][(connection # "open" /\ ev'.op = "done"
        /\ ev'.fn \in {"setOn", "setNightMode"}) =>
       /\ ev'.out = <<>>
       /\ calls' = calls
       /\ ev'.raised = "none"
       /\ ev'.upd = {}
       /\ state' = state
       /\ \A ch \in Chars \ {WrittenBy(ev'.fn)} : value'[ch] = value[ch]]_vars

====
